---- MODULE Spec2Model ----
(***************************************************************************)
(* Model of 4.umap/extract_compositions.py: ingestion of antiSMASH and     *)
(* GECCO records filtered by the GCF representatives, annotation, p-value  *)
(* filtering, regrouping by source record, ordering by GCF, vocabulary,    *)
(* and the three output files.                                             *)
(*                                                                         *)
(* Strings are sequences of one-character strings, compared as Python      *)
(* compares str (by code point).  p-values are integers in units of 1e-6.  *)
(* Every CDS is taken to carry an identifier qualifier and a translation   *)
(* (the exit(1) of region_to_cluster is not modelled).  The archives of    *)
(* one family are read as one stream: the loop body does not depend on     *)
(* the file a record comes from.                                           *)
(***************************************************************************)
EXTENDS Integers, Sequences, FiniteSets, TLC

VARIABLES
    representative_ids,   \* set(gcfs.gcf_representative)
    bgc_to_gcf_index,     \* gcf_representative -> gcf_id
    antismash_clusters,
    gecco_clusters,
    record,               \* loop variable of the two ingestion loops, <<>> outside them
    clusters,
    genes,
    all_clusters,
    all_possible,
    comp,
    outdir,               \* TRUE once os.makedirs(args.output) has run
    files,                \* file name -> content, for the files written
    missing,              \* the number printed by the last step
    pc,
    nread,                \* records streamed so far, 0 once ingestion is over
    cx, once, twice, cstage   \* canonicalisation applied once and twice

vars == << representative_ids, bgc_to_gcf_index, antismash_clusters,
           gecco_clusters, record, clusters, genes, all_clusters,
           all_possible, comp, outdir, files, missing, pc,
           nread, cx, once, twice, cstage >>

pipeline_vars == << representative_ids, bgc_to_gcf_index, antismash_clusters,
           gecco_clusters, record, clusters, genes, all_clusters,
           all_possible, comp, outdir, files, missing, pc,
           nread >>

canon_vars == << cx, once, twice, cstage >>

----------------------------------------------------------------------------
(* Bounds *)

MaxRecords == 2
MaxHits == 2
MaxLen == 6

(* Program constants *)

PValueThreshold == 10

----------------------------------------------------------------------------
(* Strings *)

Ord(c) ==
    CASE c = "." -> 46
      [] c = "1" -> 49
      [] c = "2" -> 50
      [] c = "A" -> 65
      [] c = "B" -> 66
      [] c = "C" -> 67
      [] c = "F" -> 70
      [] c = "G" -> 71
      [] c = "P" -> 80

RECURSIVE StrLess(_, _)
StrLess(a, b) ==
    IF b = <<>> THEN FALSE
    ELSE IF a = <<>> THEN TRUE
    ELSE IF Ord(Head(a)) # Ord(Head(b)) THEN Ord(Head(a)) < Ord(Head(b))
    ELSE StrLess(Tail(a), Tail(b))

\* a test of the prefix that stops one character short
StartsWithBG(x) == Len(x) >= 2 /\ SubSeq(x, 1, 2) = <<"B", "G">>

\* x.startswith("BGC")
StartsWithBGC(x) == Len(x) >= 3 /\ SubSeq(x, 1, 3) = <<"B", "G", "C">>

\* index of the last "." of x, 0 when there is none
LastDot(x) ==
    LET dots == {i \in 1..Len(x) : x[i] = "."}
    IN IF dots = {} THEN 0 ELSE CHOOSE i \in dots : \A j \in dots : j <= i

\* x.rsplit(".", 1)[0]
RSplitHead(x) == IF LastDot(x) = 0 THEN x ELSE SubSeq(x, 1, LastDot(x) - 1)

\* x.rsplit(".", 1)[0] if x.startswith("BGC") else x
Canon(x) == IF StartsWithBGC(x) THEN RSplitHead(x) ELSE x

----------------------------------------------------------------------------
(* Inputs *)

A_1   == <<"A", ".", "1">>
BGC   == <<"B", "G", "C">>
BGC_1 == <<"B", "G", "C", ".", "1">>
BGC_2 == <<"B", "G", "C", ".", "2">>
G1    == <<"G", "1">>
G2    == <<"G", "2">>
PF1   == <<"P", "F", "1">>
PF2   == <<"P", "F", "2">>

\* names of the records of the archives
RecordNames == {A_1, BGC_1, BGC_2}

\* a record: its name and the number of its CDS features
Records == [name : RecordNames, cds : {1}] \cup [name : {A_1}, cds : {0}]

\* rows (gcf_representative, gcf_id) the input table may hold
TableRows == {<<A_1, G2>>, <<BGC, G1>>, <<BGC_1, G1>>}

\* what a library may attach to a gene: a domain name and a p-value
Hits == { [name |-> PF1, pvalue |-> 1],  [name |-> PF1, pvalue |-> 10],
          [name |-> PF2, pvalue |-> 1],  [name |-> PF2, pvalue |-> 100] }

----------------------------------------------------------------------------
(* Sequence helpers *)

Range(s) == {s[i] : i \in DOMAIN s}

RECURSIVE Flatten(_)
Flatten(ss) == IF ss = <<>> THEN <<>> ELSE Head(ss) \o Flatten(Tail(ss))

\* list.sort(key=...) on a sequence of [key, item] pairs: insertion after the
\* items whose key is not greater, which keeps equal keys in their order (stable)
RECURSIVE InsertKeyed(_, _)
InsertKeyed(x, s) ==
    IF s = <<>> THEN <<x>>
    ELSE IF StrLess(x.key, Head(s).key) THEN <<x>> \o s
    ELSE <<Head(s)>> \o InsertKeyed(x, Tail(s))

RECURSIVE SortKeyed(_)
SortKeyed(s) ==
    IF s = <<>> THEN <<>>
    ELSE InsertKeyed(s[Len(s)], SortKeyed(SubSeq(s, 1, Len(s) - 1)))

Items(s) == [i \in DOMAIN s |-> s[i].item]

----------------------------------------------------------------------------
(* Ingestion *)

NewGenes(rec) ==
    [k \in 1..rec.cds |->
        [source |-> rec, start |-> k, protein |-> [domains |-> <<>>]]]

region_to_cluster(rec, bgc_id) == [id |-> bgc_id, genes |-> NewGenes(rec)]

record_to_cluster(rec) == [id |-> rec.name, genes |-> NewGenes(rec)]

AntismashId(rec) == Canon(rec.name)

GeccoAccepts(rec) == rec.name \in representative_ids

PipelineInit ==
    /\ \E gcfs \in SUBSET TableRows :
          /\ representative_ids = {row[1] : row \in gcfs}
          /\ bgc_to_gcf_index =
                [r \in {row[1] : row \in gcfs} |->
                    (CHOOSE row \in gcfs : row[1] = r)[2]]
    /\ antismash_clusters = <<>>
    /\ gecco_clusters = <<>>
    /\ record = <<>>
    /\ clusters = <<>>
    /\ genes = <<>>
    /\ all_clusters = <<>>
    /\ all_possible = <<>>
    /\ comp = <<>>
    /\ outdir = FALSE
    /\ files = <<>>
    /\ missing = -1
    /\ pc = "antismash"
    /\ nread = 0

CanonIdle == cx = <<>> /\ once = <<>> /\ twice = <<>> /\ cstage = "idle"

Init == PipelineInit /\ CanonIdle

ReadAntismash ==
    /\ pc = "antismash"
    /\ nread < MaxRecords
    /\ \E rec \in Records :
          /\ record' = rec
          /\ antismash_clusters' =
                IF AntismashId(rec) \in representative_ids
                THEN Append(antismash_clusters, region_to_cluster(rec, AntismashId(rec)))
                ELSE antismash_clusters
    /\ nread' = nread + 1
    /\ UNCHANGED << representative_ids, bgc_to_gcf_index, gecco_clusters, clusters,
                    genes, all_clusters, all_possible, comp, outdir, files,
                    missing, pc, canon_vars >>

\* the last archive of AS_RECORDS is exhausted
EndAntismash ==
    /\ pc = "antismash"
    /\ pc' = "gecco"
    /\ record' = <<>>
    /\ UNCHANGED << representative_ids, bgc_to_gcf_index, antismash_clusters,
                    gecco_clusters, clusters, genes, all_clusters,
                    all_possible, comp, outdir, files, missing, nread,
                    canon_vars >>

ReadGecco ==
    /\ pc = "gecco"
    /\ nread < MaxRecords
    /\ \E rec \in Records :
          /\ record' = rec
          /\ gecco_clusters' =
                IF GeccoAccepts(rec)
                THEN Append(gecco_clusters, record_to_cluster(rec))
                ELSE gecco_clusters
    /\ nread' = nread + 1
    /\ UNCHANGED << representative_ids, bgc_to_gcf_index, antismash_clusters, clusters,
                    genes, all_clusters, all_possible, comp, outdir, files,
                    missing, pc, canon_vars >>

\* the last archive of GECCO_RECORDS is exhausted
EndGecco ==
    /\ pc = "gecco"
    /\ pc' = "merge"
    /\ record' = <<>>
    /\ nread' = 0
    /\ UNCHANGED << representative_ids, bgc_to_gcf_index, antismash_clusters,
                    gecco_clusters, clusters, genes, all_clusters,
                    all_possible, comp, outdir, files, missing, 
                    canon_vars >>

----------------------------------------------------------------------------
(* Merge, annotation, filter, regrouping *)

GenesOf(cs) == Flatten([i \in DOMAIN cs |-> cs[i].genes])

Merge ==
    /\ pc = "merge"
    /\ clusters' = gecco_clusters \o antismash_clusters
    /\ genes' = GenesOf(clusters')
    /\ pc' = "annotate"
    /\ UNCHANGED << representative_ids, bgc_to_gcf_index, antismash_clusters,
                    gecco_clusters, record, all_clusters, all_possible, comp,
                    outdir, files, missing, nread, canon_vars >>

\* the clusters cs holding the genes gs: the gene objects of the flat list
\* are the gene objects of the clusters, so a hit attached to one shows in both
RECURSIVE Reassemble(_, _)
Reassemble(cs, gs) ==
    IF cs = <<>> THEN <<>>
    ELSE LET n == Len(Head(cs).genes)
         IN <<[Head(cs) EXCEPT !.genes = SubSeq(gs, 1, n)]>>
            \o Reassemble(Tail(cs), SubSeq(gs, n + 1, Len(gs)))

\* sequences over S of length at most n
RECURSIVE SeqsUpTo(_, _)
SeqsUpTo(S, n) ==
    IF n = 0 THEN {<<>>}
    ELSE LET shorter == SeqsUpTo(S, n - 1)
         IN shorter \cup {Append(q, x) : q \in shorter, x \in S}

\* what the libraries may attach to n genes: one sequence of hits for each
\* gene, at most `budget` hits in all
RECURSIVE HitAssignments(_, _)
HitAssignments(n, budget) ==
    IF n = 0 THEN {<<>>}
    ELSE UNION { { <<q>> \o rest : rest \in HitAssignments(n - 1, budget - Len(q)) }
                 : q \in SeqsUpTo(Hits, budget) }

\* for hmm in HMMS: hmmer.run(genes): the libraries, run in order over all the
\* genes, append hits to the domains of each gene's protein
Annotate ==
    /\ pc = "annotate"
    /\ \E add \in HitAssignments(Len(genes), MaxHits) :
          /\ genes' = [i \in DOMAIN genes |->
                          [genes[i] EXCEPT !.protein.domains = @ \o add[i]]]
    /\ clusters' = Reassemble(clusters, genes')
    /\ gecco_clusters' = SubSeq(clusters', 1, Len(gecco_clusters))
    /\ antismash_clusters' = SubSeq(clusters', Len(gecco_clusters) + 1, Len(clusters'))
    /\ pc' = "filter"
    /\ UNCHANGED << representative_ids, bgc_to_gcf_index, record, all_clusters,
                    all_possible, comp, outdir, files, missing, nread, canon_vars >>

SignificantOrEqual(d) == d.pvalue <= PValueThreshold

\* d.pvalue < 1e-5
Significant(d) == d.pvalue < PValueThreshold

Filter ==
    /\ pc = "filter"
    /\ genes' = [i \in DOMAIN genes |->
                    [genes[i] EXCEPT !.protein.domains = SelectSeq(@, Significant)]]
    /\ pc' = "sort"
    /\ UNCHANGED << representative_ids, bgc_to_gcf_index, antismash_clusters,
                    gecco_clusters, record, clusters, all_clusters, all_possible,
                    comp, outdir, files, missing, nread, canon_vars >>

SortGenes ==
    /\ pc = "sort"
    /\ genes' = Items(SortKeyed([i \in DOMAIN genes |->
                    [key |-> genes[i].source.name, item |-> genes[i]]]))
    /\ pc' = "group"
    /\ UNCHANGED << representative_ids, bgc_to_gcf_index, antismash_clusters,
                    gecco_clusters, record, clusters, all_clusters, all_possible,
                    comp, outdir, files, missing, nread, canon_vars >>

\* itertools.groupby(gs, lambda g: g.source.name): the maximal runs of
\* consecutive genes with equal key, as [key, items]
RECURSIVE GroupBy(_)
GroupBy(gs) ==
    IF gs = <<>> THEN <<>>
    ELSE LET rest == GroupBy(Tail(gs))
             k == Head(gs).source.name
         IN IF rest # <<>> /\ Head(rest).key = k
            THEN <<[key |-> k, items |-> <<Head(gs)>> \o Head(rest).items]>> \o Tail(rest)
            ELSE <<[key |-> k, items |-> <<Head(gs)>>]>> \o rest

\* the id given to the cluster of one run
GroupId(bgc_id) == Canon(bgc_id)

Group ==
    /\ pc = "group"
    /\ all_clusters' = LET runs == GroupBy(genes)
                       IN [k \in DOMAIN runs |->
                             [id |-> GroupId(runs[k].key), genes |-> runs[k].items]]
    /\ pc' = "order"
    /\ UNCHANGED << representative_ids, bgc_to_gcf_index, antismash_clusters,
                    gecco_clusters, record, clusters, genes, all_possible,
                    comp, outdir, files, missing, nread, canon_vars >>

----------------------------------------------------------------------------
(* Row order, vocabulary, output *)

\* every cluster.id is a key of bgc_to_gcf_index (no KeyError)
LabelKeysPresent == \A i \in DOMAIN all_clusters : all_clusters[i].id \in DOMAIN bgc_to_gcf_index

\* an ordering that looks the key up with a default instead of failing
OrderWithDefaultKey ==
    /\ pc = "order"
    /\ all_clusters' = Items(SortKeyed([i \in DOMAIN all_clusters |->
            [key |-> IF all_clusters[i].id \in DOMAIN bgc_to_gcf_index
                     THEN bgc_to_gcf_index[all_clusters[i].id] ELSE <<>>,
             item |-> all_clusters[i]]]))
    /\ pc' = "vocabulary"
    /\ UNCHANGED << representative_ids, bgc_to_gcf_index, antismash_clusters,
                    gecco_clusters, record, clusters, genes, all_possible,
                    comp, outdir, files, missing, nread, canon_vars >>

\* all_clusters.sort(key=lambda cluster: bgc_to_gcf_index[cluster.id])
Order ==
    /\ pc = "order"
    /\ IF LabelKeysPresent
       THEN /\ all_clusters' = Items(SortKeyed([i \in DOMAIN all_clusters |->
                    [key |-> bgc_to_gcf_index[all_clusters[i].id], item |-> all_clusters[i]]]))
            /\ pc' = "vocabulary"
       ELSE /\ all_clusters' = all_clusters
            /\ pc' = "failed"
    /\ UNCHANGED << representative_ids, bgc_to_gcf_index, antismash_clusters,
                    gecco_clusters, record, clusters, genes, all_possible,
                    comp, outdir, files, missing, nread, canon_vars >>

DomainsOf(c) == Flatten([i \in DOMAIN c.genes |-> c.genes[i].protein.domains])

DomainNamesOf(cs) == UNION { {d.name : d \in Range(DomainsOf(cs[i]))} : i \in DOMAIN cs }

\* sorted(S) for a set S of strings
RECURSIVE Sorted(_)
Sorted(S) ==
    IF S = {} THEN <<>>
    ELSE LET m == CHOOSE x \in S : \A y \in S : ~ StrLess(y, x)
         IN <<m>> \o Sorted(S \ {m})

\* a vocabulary collected from the merged clusters, whose genes are unfiltered
VocabularyOfMerged ==
    /\ pc = "vocabulary"
    /\ all_possible' = Sorted(DomainNamesOf(clusters))
    /\ pc' = "makedirs"
    /\ UNCHANGED << representative_ids, bgc_to_gcf_index, antismash_clusters,
                    gecco_clusters, record, clusters, genes, all_clusters,
                    comp, outdir, files, missing, nread, canon_vars >>

Vocabulary ==
    /\ pc = "vocabulary"
    /\ all_possible' = Sorted(DomainNamesOf(all_clusters))
    /\ pc' = "makedirs"
    /\ UNCHANGED << representative_ids, bgc_to_gcf_index, antismash_clusters,
                    gecco_clusters, record, clusters, genes, all_clusters,
                    comp, outdir, files, missing, nread, canon_vars >>

MakeDirs ==
    /\ pc = "makedirs"
    /\ outdir' = TRUE
    /\ pc' = "labels"
    /\ UNCHANGED << representative_ids, bgc_to_gcf_index, antismash_clusters,
                    gecco_clusters, record, clusters, genes, all_clusters,
                    all_possible, comp, files, missing, nread, canon_vars >>

WriteLabels ==
    /\ pc = "labels"
    /\ files' = files @@ ("labels.tsv" :>
                    [i \in DOMAIN all_clusters |->
                        <<all_clusters[i].id, bgc_to_gcf_index[all_clusters[i].id]>>])
    /\ pc' = "domains"
    /\ UNCHANGED << representative_ids, bgc_to_gcf_index, antismash_clusters,
                    gecco_clusters, record, clusters, genes, all_clusters,
                    all_possible, comp, outdir, missing, nread, canon_vars >>

WriteDomains ==
    /\ pc = "domains"
    /\ files' = files @@ ("domains.tsv" :> all_possible)
    /\ pc' = "compose"
    /\ UNCHANGED << representative_ids, bgc_to_gcf_index, antismash_clusters,
                    gecco_clusters, record, clusters, genes, all_clusters,
                    all_possible, comp, outdir, missing, nread, canon_vars >>

\* the sum over the domains named `name` of 1 - pvalue, in units of 1e-6
RECURSIVE Weight(_, _)
Weight(doms, name) ==
    IF doms = <<>> THEN 0
    ELSE (IF Head(doms).name = name THEN 1000000 - Head(doms).pvalue ELSE 0)
         + Weight(Tail(doms), name)

RECURSIVE SumRow(_)
SumRow(row) == IF row = <<>> THEN 0 ELSE Head(row) + SumRow(Tail(row))

\* c.domain_composition(names): for each name the summed weight of its hits in
\* the cluster, divided by the sum of the row (or 1): entries <<numerator, denominator>>
DomainComposition(c, names) ==
    LET composition == [j \in DOMAIN names |-> Weight(DomainsOf(c), names[j])]
        total == SumRow(composition)
    IN [j \in DOMAIN names |-> <<composition[j], IF total = 0 THEN 1 ELSE total>>]

Compose ==
    /\ pc = "compose"
    /\ comp' = [i \in DOMAIN all_clusters |-> DomainComposition(all_clusters[i], all_possible)]
    /\ pc' = "save"
    /\ UNCHANGED << representative_ids, bgc_to_gcf_index, antismash_clusters,
                    gecco_clusters, record, clusters, genes, all_clusters,
                    all_possible, outdir, files, missing, nread, canon_vars >>

\* scipy.sparse.coo_matrix(comp): the rows of a two-dimensional array; the array
\* of an empty list has one dimension and becomes a matrix of one row, no column
CooMatrix(m) == IF m = <<>> THEN << <<>> >> ELSE m

Save ==
    /\ pc = "save"
    /\ files' = files @@ ("compositions.npz" :> CooMatrix(comp))
    /\ pc' = "missing"
    /\ UNCHANGED << representative_ids, bgc_to_gcf_index, antismash_clusters,
                    gecco_clusters, record, clusters, genes, all_clusters,
                    all_possible, comp, outdir, missing, nread, canon_vars >>

CheckMissing ==
    /\ pc = "missing"
    /\ missing' = Cardinality(representative_ids \ {all_clusters[i].id : i \in DOMAIN all_clusters})
    /\ pc' = "done"
    /\ UNCHANGED << representative_ids, bgc_to_gcf_index, antismash_clusters,
                    gecco_clusters, record, clusters, genes, all_clusters,
                    all_possible, comp, outdir, files, nread, canon_vars >>

Next == ReadAntismash \/ EndAntismash \/ ReadGecco \/ EndGecco \/ Merge
        \/ Annotate \/ Filter \/ SortGenes \/ Group \/ Order \/ Vocabulary
        \/ MakeDirs \/ WriteLabels \/ WriteDomains \/ Compose \/ Save
        \/ CheckMissing

Spec == Init /\ [][Next]_vars

----------------------------------------------------------------------------
(* The canonicalisation expression applied once and twice to an identifier *)

Alphabet == {"B", "G", "C", ".", "1"}

PipelineIdle ==
    /\ representative_ids = {}
    /\ bgc_to_gcf_index = <<>>
    /\ antismash_clusters = <<>>
    /\ gecco_clusters = <<>>
    /\ record = <<>>
    /\ clusters = <<>>
    /\ genes = <<>>
    /\ all_clusters = <<>>
    /\ all_possible = <<>>
    /\ comp = <<>>
    /\ outdir = FALSE
    /\ files = <<>>
    /\ missing = -1
    /\ pc = "idle"
    /\ nread = 0

InitCanon ==
    /\ PipelineIdle
    /\ cx \in SeqsUpTo(Alphabet, MaxLen)
    /\ once = <<>>
    /\ twice = <<>>
    /\ cstage = "start"

ApplyOnce ==
    /\ cstage = "start"
    /\ once' = Canon(cx)
    /\ cstage' = "once"
    /\ UNCHANGED << cx, twice, pipeline_vars >>

ApplyTwice ==
    /\ cstage = "once"
    /\ twice' = Canon(once)
    /\ cstage' = "twice"
    /\ UNCHANGED << cx, once, pipeline_vars >>

NextCanon == ApplyOnce \/ ApplyTwice

SpecCanon == InitCanon /\ [][NextCanon]_vars

----------------------------------------------------------------------------
(* Properties *)

\* the regrouping of lines 189-193 has run
Regrouped == pc \in {"order", "vocabulary", "makedirs", "labels", "domains",
                     "compose", "save", "missing", "done", "failed"}

\* the composition matrix of line 218 has been assembled
Composed == pc \in {"save", "missing", "done"}

\* the step taken reads one record of an archive
ReadsRecord == nread' = nread + 1

SameGene(g, h) == g.source = h.source /\ g.start = h.start

GeneKeys(gs) == [i \in DOMAIN gs |-> [source |-> gs[i].source, start |-> gs[i].start]]

RECURSIVE IsSubsequence(_, _)
IsSubsequence(a, b) ==
    IF a = <<>> THEN TRUE
    ELSE IF b = <<>> THEN FALSE
    ELSE IF Head(a) = Head(b) THEN IsSubsequence(Tail(a), Tail(b))
    ELSE IsSubsequence(a, Tail(b))

\* the identifier begins with the three characters B, G, C
HasPrefixBGC(x) == Len(x) >= 3 /\ x[1] = "B" /\ x[2] = "G" /\ x[3] = "C"

DotCount(x) == Cardinality({i \in 1..Len(x) : x[i] = "."})

StrictlyAscending(v) == \A j \in 1..(Len(v) - 1) : StrLess(v[j], v[j + 1])

\* C1: every record read from an archive of either family has a cluster
\* appended to the family's list if and only if its canonical identifier
\* (Canon of its name) is in the representative set.
C1_AppendedIffCanonicalInSet ==
    [][ ReadsRecord =>
          ( ( antismash_clusters' # antismash_clusters
              \/ gecco_clusters' # gecco_clusters )
            <=> Canon(record'.name) \in representative_ids ) ]_vars

\* C2: the identifier of the final cluster holding a gene equals the
\* identifier of the ingested cluster that holds this gene in the merged list.
C2_FinalIdIsIngestionId ==
    Regrouped =>
       \A i \in DOMAIN clusters : \A j \in DOMAIN all_clusters :
          \A g \in Range(clusters[i].genes) : \A h \in Range(all_clusters[j].genes) :
             SameGene(g, h) => all_clusters[j].id = clusters[i].id

\* C3: after regrouping no two final clusters have the same identifier, and
\* genes whose source records share a canonical identifier are in one cluster.
C3_OneClusterPerCanonicalId ==
    Regrouped =>
       \A i, j \in DOMAIN all_clusters :
          /\ i # j => all_clusters[i].id # all_clusters[j].id
          /\ \A g \in Range(all_clusters[i].genes) : \A h \in Range(all_clusters[j].genes) :
                Canon(g.source.name) = Canon(h.source.name) => i = j

\* C4: when no two ingested identifiers collide after canonicalisation, the
\* final clusters have exactly the identifiers of the merged list and each
\* holds exactly the genes of the ingested cluster with its identifier,
\* ingested clusters without a coding feature included.
C4_RegroupingRoundTrip ==
    ( /\ Regrouped
      /\ \A i, j \in DOMAIN clusters :
            i # j => Canon(clusters[i].id) # Canon(clusters[j].id) )
    => /\ {all_clusters[j].id : j \in DOMAIN all_clusters}
            = {clusters[i].id : i \in DOMAIN clusters}
       /\ \A i \in DOMAIN clusters : \A j \in DOMAIN all_clusters :
             all_clusters[j].id = clusters[i].id
                => GeneKeys(all_clusters[j].genes) = GeneKeys(clusters[i].genes)

\* C5 as stated: for every identifier, the truncation rule applied twice
\* gives what it gives applied once.
C5_CanonIdempotent == cstage = "twice" => twice = once

\* C5 as amended: for every identifier that does not start with BGC or holds
\* at most one ".", the truncation rule applied twice gives what it gives
\* applied once.
C5_CanonIdempotentUpToOneDot ==
    ( cstage = "twice" /\ (~ HasPrefixBGC(cx) \/ DotCount(cx) <= 1) ) => twice = once

C5_Witness ==
    /\ cstage = "twice"
    /\ HasPrefixBGC(cx)
    /\ DotCount(cx) = 1
    /\ once # cx
    /\ twice = once

\* C6: right after the filter the flat list has the genes it had, in their
\* order; each gene's domains are a subsequence of its domains before the
\* filter, holding every one with a p-value strictly below the threshold and
\* none with a p-value equal to or above it.
C6_SignificanceFilter ==
    pc = "sort" =>
       LET before == GenesOf(clusters)
       IN /\ GeneKeys(genes) = GeneKeys(before)
          /\ \A i \in DOMAIN genes :
                LET old == before[i].protein.domains
                    new == genes[i].protein.domains
                IN /\ IsSubsequence(new, old)
                   /\ \A k \in DOMAIN new : new[k].pvalue < PValueThreshold
                   /\ Len(new) = Cardinality({k \in DOMAIN old : old[k].pvalue < PValueThreshold})

C6_Witness ==
    /\ pc = "sort"
    /\ \E i \in DOMAIN genes :
          LET old == GenesOf(clusters)[i].protein.domains
              new == genes[i].protein.domains
          IN /\ \E k \in DOMAIN old : old[k].pvalue = PValueThreshold
             /\ new # <<>>
             /\ Len(new) < Len(old)

\* C7: in a completed run labels.tsv has one line and compositions.npz one
\* row for each final cluster; line i names the cluster whose composition is
\* row i, and column j is computed for the name on line j of domains.tsv.
C7_MatrixLabelAlignment ==
    pc = "done" =>
       LET labels == files["labels.tsv"]
           names == files["domains.tsv"]
           matrix == files["compositions.npz"]
       IN /\ Len(labels) = Len(all_clusters)
          /\ Len(matrix) = Len(all_clusters)
          /\ \A i \in DOMAIN all_clusters :
                /\ labels[i][1] = all_clusters[i].id
                /\ Len(matrix[i]) = Len(names)
                /\ \A j \in DOMAIN names :
                      matrix[i][j][1] = Weight(DomainsOf(all_clusters[i]), names[j])

\* C8: the vocabulary is built only after filtering and regrouping; the
\* names written to domains.tsv are in ascending order without duplicates,
\* hold every domain name of every gene of every final cluster, and hold no
\* name whose every hit was removed by the filter.
C8_Vocabulary ==
    /\ ~ Regrouped => all_possible = <<>>
    /\ "domains.tsv" \in DOMAIN files =>
          LET names == files["domains.tsv"]
          IN /\ StrictlyAscending(names)
             /\ DomainNamesOf(all_clusters) \subseteq Range(names)
             /\ \A n \in Range(names) :
                   \E g \in Range(GenesOf(clusters)) : \E d \in Range(g.protein.domains) :
                      d.name = n /\ d.pvalue < PValueThreshold

C8_Witness ==
    /\ "domains.tsv" \in DOMAIN files
    /\ files["domains.tsv"] = <<PF1, PF2>>
    /\ \E i \in DOMAIN all_clusters :
          LET doms == DomainsOf(all_clusters[i])
          IN doms # <<>> /\ doms[1].name = PF2

\* C9: no output artifact exists, and the output directory is not created,
\* before the composition matrix has been assembled.
C9_NoArtifactBeforeMatrix == (outdir \/ DOMAIN files # {}) => Composed

\* C10: when a final cluster's identifier is not a key of the label table,
\* the run stops at the row ordering; the output directory is not created
\* and no output file is written.
C10_MissingLabelAborts ==
    ( /\ Regrouped
      /\ \E i \in DOMAIN all_clusters : all_clusters[i].id \notin DOMAIN bgc_to_gcf_index )
    => /\ pc \in {"order", "failed"}
       /\ ~ outdir
       /\ DOMAIN files = {}

C10_Witness ==
    /\ pc = "failed"
    /\ \E i \in DOMAIN all_clusters : all_clusters[i].id \notin DOMAIN bgc_to_gcf_index
    /\ ~ outdir
    /\ DOMAIN files = {}

====
